---- MODULE Spec2Model ----
(***************************************************************************)
(* Car rental system: the console session of main.py driving Customer /    *)
(* VIPCustomer (customer.py) against RentalShop (rental_shop.py), whose     *)
(* three tables (cars, car_types, car_rentals) are CSV files on disk.       *)
(*                                                                          *)
(* Text cells are sequences of decimal digits (customer numbers) or         *)
(* strings (car ids, type names); rates are whole pounds (the seed rates    *)
(* 30.0 ... 100.0 are exact); a Python call is modelled with its binding    *)
(* of arguments to the callee's parameters, so that a call the callee's     *)
(* signature does not accept raises TypeError as it does in Python.         *)
(***************************************************************************)
EXTENDS Integers, Sequences, FiniteSets, TLC

VARIABLES db_exists, cars, car_types, car_rentals, pc, customer, last

vars == <<db_exists, cars, car_types, car_rentals, pc, customer, last>>

\* ------------------------------------------------------------------ bounds

\* The number of rental records a run explores (the seed fleet allows 10).
MaxRentals == 3

\* ------------------------------------------------------- program constants

\* rental_shop.py:145  "if days < 7"
WEEK == 7

\* main.py:47  the customer number has six digits
CUSTOMER_NUMBER_LEN == 6

\* main.py:88  the length the loyalty card validation compares against
LOYALTY_NUMBER_LEN == 10

\* ------------------------------------------------------------------ inputs

\* The absent loyalty entry (the user pressed ENTER), and "no value".
NoDigits == <<>>

\* What the user may type as a customer number.
CustomerEntries == { <<0, 1, 2, 3, 4, 5>>, <<1, 2, 3, 4, 5, 6>> }

\* What the user may type as a loyalty card number (already stripped).
LoyaltyEntries == { NoDigits, <<9, 8, 7, 6, 5, 4, 3, 2, 1, 0>>, <<4, 2>> }

\* What the user may type as a car type (already lower-cased): two types of the
\* seed schedule, one abbreviated and one not, and a type it does not hold.
CarTypeEntries == { "sedan", "suv", "truck" }

\* What the user may type as a number of days ("0" passes isdigit).
DayEntries == { 0, WEEK - 1, WEEK }

\* What the user may type as the registration number of a car to return.
CarNumberEntries == { "MP952TQG", "MC469ZMW", "ZZ000ZZZ" }

\* --------------------------------------------------------- seed tables

\* rental_shop.py _random_car_ids(10, seed=0) paired with the car_type column.
SetupCars ==
  << [car_id |-> "VT425KUH", car_type |-> "hatchback"],
     [car_id |-> "MP952TQG", car_type |-> "sedan"],
     [car_id |-> "XZ893SXR", car_type |-> "sedan"],
     [car_id |-> "MC469ZMW", car_type |-> "suv"],
     [car_id |-> "GU507KVR", car_type |-> "suv"],
     [car_id |-> "AM823WEO", car_type |-> "hatchback"],
     [car_id |-> "GZ840INY", car_type |-> "hatchback"],
     [car_id |-> "CO758OZP", car_type |-> "hatchback"],
     [car_id |-> "PL535HEE", car_type |-> "sedan"],
     [car_id |-> "PR407WYV", car_type |-> "suv"] >>

SetupRentals == << >>

SetupCarTypes ==
  << [type_name |-> "hatchback", abbrev |-> FALSE,
      short_term_rate |-> 30, long_term_rate |-> 25, vip_rate |-> 20],
     [type_name |-> "sedan", abbrev |-> FALSE,
      short_term_rate |-> 50, long_term_rate |-> 40, vip_rate |-> 35],
     [type_name |-> "suv", abbrev |-> TRUE,
      short_term_rate |-> 100, long_term_rate |-> 90, vip_rate |-> 80] >>

\* ------------------------------------------------------- CSV round trip

RECURSIVE ParseInt(_)
\* The integer a run of decimal digits denotes (leading zeros contribute 0).
ParseInt(ds) ==
  IF Len(ds) = 0 THEN 0
  ELSE 10 * ParseInt(SubSeq(ds, 1, Len(ds) - 1)) + ds[Len(ds)]

RECURSIVE FormatInt(_)
\* The decimal digits of a natural number, without leading zeros.
FormatInt(n) ==
  IF n < 10 THEN <<n>> ELSE Append(FormatInt(n \div 10), n % 10)

\* A cell of the customer_number column in memory: an integer that read_csv
\* inferred, or the Python string a request put there.
IntCell(n) == [kind |-> "int", int |-> n, str |-> NoDigits]
StrCell(ds) == [kind |-> "str", int |-> 0, str |-> ds]

\* to_csv writes a cell as its str(): an integer has no leading zeros.
CellText(c) == IF c.kind = "int" THEN FormatInt(c.int) ELSE c.str

\* RentalShop._get_data: pd.read_csv(path, index_col=0) with no dtype, so an
\* all-digit customer_number column is inferred as integers.
GetData(rows) ==
  [i \in 1..Len(rows) |->
     [rows[i] EXCEPT !.customer_number = IntCell(ParseInt(@))]]

\* DataFrame.to_csv: every cell is written as text.
ToCsv(frame) ==
  [i \in 1..Len(frame) |->
     [frame[i] EXCEPT !.customer_number = CellText(@)]]

\* ----------------------------------------------------------- RentalShop

\* The positions of the rows of `frame` whose car_id is `car_id`.
RowsOf(frame, car_id) == { i \in 1..Len(frame) : frame[i].car_id = car_id }

\* The index (car_id) column of a table.
Index(frame) == { frame[i].car_id : i \in 1..Len(frame) }

RECURSIVE Drop(_, _)
\* DataFrame.drop(labels): the rows whose index is not in labels, in order.
Drop(frame, labels) ==
  IF Len(frame) = 0 THEN << >>
  ELSE LET rest == Drop(Tail(frame), labels)
       IN IF Head(frame).car_id \in labels THEN rest ELSE <<Head(frame)>> \o rest

\* A variant that forgets to drop the rented cars.
GetAvailableCarsAll(fleet, rentals) == fleet

\* RentalShop._get_available_cars: cars.drop(rentals.index).
GetAvailableCars(fleet, rentals) == Drop(fleet, Index(rentals))

\* A variant that forgets the selection by car type.
SelectTypeAny(frame, car_type) == frame

RECURSIVE SelectType(_, _)
\* available_cars[available_cars["car_type"] == car_type]
SelectType(frame, car_type) ==
  IF Len(frame) = 0 THEN << >>
  ELSE LET rest == SelectType(Tail(frame), car_type)
       IN IF Head(frame).car_type = car_type THEN <<Head(frame)>> \o rest ELSE rest

\* car_types.index
TypeNames(types) == { types[i].type_name : i \in 1..Len(types) }

\* car_types.loc[car_type]
Rates(types, car_type) ==
  types[CHOOSE i \in 1..Len(types) : types[i].type_name = car_type]

\* A variant whose short-term range includes the seventh day.
SelectRateOffByOne(rates, days) ==
  IF days <= WEEK THEN rates.short_term_rate ELSE rates.long_term_rate

\* rental_shop.py:145-148, the daily rate of a request.
SelectRate(rates, days) ==
  IF days < WEEK THEN rates.short_term_rate ELSE rates.long_term_rate

\* car_rentals.loc[car_id, [...]] = [...]: the row labelled car_id is
\* overwritten if there is one, and appended otherwise.
LocSet(frame, row) ==
  IF RowsOf(frame, row.car_id) = {}
  THEN Append(frame, row)
  ELSE [i \in 1..Len(frame) |->
          IF frame[i].car_id = row.car_id THEN row ELSE frame[i]]

\* RentalShop._get_abbrev_types: the type names whose abbrev field is True.
GetAbbrevTypes(types) ==
  { types[i].type_name : i \in { j \in 1..Len(types) : types[j].abbrev } }

\* str.upper() on the type names of the tables.
Upper(s) ==
  CASE s = "hatchback" -> "HATCHBACK"
    [] s = "sedan" -> "SEDAN"
    [] s = "suv" -> "SUV"
    [] OTHER -> s

\* The rename of rental_shop.py:56 and :66: abbreviated names are upper-cased.
Rename(types, x) == IF x \in GetAbbrevTypes(types) THEN Upper(x) ELSE x

\* available_cars.groupby("car_type").size(): one row for each car type that
\* occurs in the frame, with the number of its rows.
GroupBySize(frame) ==
  { [car_type |-> t,
     size |-> Cardinality({ i \in 1..Len(frame) : frame[i].car_type = t })] :
    t \in { frame[i].car_type : i \in 1..Len(frame) } }

\* A variant that saves the rentals table it has read.
DisplayStockSaves(types, fleet, rentals_file) ==
  LET rentals == GetData(rentals_file)
      available_cars == GetAvailableCars(fleet, rentals)
  IN [no_cars |-> Len(available_cars) = 0,
      stock |-> IF Len(available_cars) = 0 THEN {}
                ELSE { [g EXCEPT !.car_type = Rename(types, @)] :
                       g \in GroupBySize(available_cars) },
      prices |-> { [types[i] EXCEPT !.type_name = Rename(types, @)] :
                   i \in 1..Len(types) },
      file |-> ToCsv(rentals)]

\* RentalShop.display_stock(): what it prints (the message that no car is
\* available or the rows of the stock table, then the rows of the price table)
\* and the car_rentals file it leaves on disk.
DisplayStock(types, fleet, rentals_file) ==
  LET available_cars == GetAvailableCars(fleet, GetData(rentals_file))
  IN [no_cars |-> Len(available_cars) = 0,
      stock |-> IF Len(available_cars) = 0 THEN {}
                ELSE { [g EXCEPT !.car_type = Rename(types, @)] :
                       g \in GroupBySize(available_cars) },
      prices |-> { [types[i] EXCEPT !.type_name = Rename(types, @)] :
                   i \in 1..Len(types) },
      file |-> rentals_file]

\* A variant that allocates the last listed car of the type.
ProcessRequestLastFit(types, fleet, rentals_file, customer_number, car_type, days) ==
  LET rejected == [result |-> "False", car_id |-> "", rate |-> 0,
                   file |-> rentals_file]
      rentals == GetData(rentals_file)
      cars_of_type == SelectType(GetAvailableCars(fleet, rentals), car_type)
  IN IF car_type \notin TypeNames(types) THEN rejected
     ELSE IF Len(cars_of_type) = 0 THEN rejected
     ELSE LET car_id == cars_of_type[Len(cars_of_type)].car_id
              r == SelectRate(Rates(types, car_type), days)
              row == [car_id |-> car_id,
                      customer_number |-> StrCell(customer_number),
                      rate |-> r, days |-> days]
          IN [result |-> "True", car_id |-> car_id, rate |-> r,
              file |-> ToCsv(LocSet(rentals, row))]

\* A variant that writes the table it read back to disk before it validates
\* the request.
ProcessRequestSaveFirst(types, fleet, rentals_file, customer_number, car_type, days) ==
  LET rentals == GetData(rentals_file)
      rejected == [result |-> "False", car_id |-> "", rate |-> 0,
                   file |-> ToCsv(rentals)]
      cars_of_type == SelectType(GetAvailableCars(fleet, rentals), car_type)
  IN IF car_type \notin TypeNames(types) THEN rejected
     ELSE IF Len(cars_of_type) = 0 THEN rejected
     ELSE LET car_id == cars_of_type[1].car_id
              r == SelectRate(Rates(types, car_type), days)
              row == [car_id |-> car_id,
                      customer_number |-> StrCell(customer_number),
                      rate |-> r, days |-> days]
          IN [result |-> "True", car_id |-> car_id, rate |-> r,
              file |-> ToCsv(LocSet(rentals, row))]

\* A variant whose stock test looks at all the available cars instead of
\* those of the requested type: cars_of_type.index[0] then raises IndexError
\* when the type is out of stock.
ProcessRequestWrongStockTest(types, fleet, rentals_file, customer_number, car_type, days) ==
  LET rejected == [result |-> "False", car_id |-> "", rate |-> 0,
                   file |-> rentals_file]
      rentals == GetData(rentals_file)
      available_cars == GetAvailableCars(fleet, rentals)
      cars_of_type == SelectType(available_cars, car_type)
  IN IF car_type \notin TypeNames(types) THEN rejected
     ELSE IF Len(available_cars) = 0 THEN rejected
     ELSE IF Len(cars_of_type) = 0 THEN [rejected EXCEPT !.result = "IndexError"]
     ELSE LET car_id == cars_of_type[1].car_id
              r == SelectRate(Rates(types, car_type), days)
              row == [car_id |-> car_id,
                      customer_number |-> StrCell(customer_number),
                      rate |-> r, days |-> days]
          IN [result |-> "True", car_id |-> car_id, rate |-> r,
              file |-> ToCsv(LocSet(rentals, row))]

\* RentalShop.process_request(customer_number, car_type, days): the value it
\* returns, the car it allocated, the rate it charged and the car_rentals file
\* it leaves on disk.
ProcessRequest(types, fleet, rentals_file, customer_number, car_type, days) ==
  LET rejected == [result |-> "False", car_id |-> "", rate |-> 0,
                   file |-> rentals_file]
      rentals == GetData(rentals_file)
      cars_of_type == SelectType(GetAvailableCars(fleet, rentals), car_type)
  IN IF car_type \notin TypeNames(types) THEN rejected
     ELSE IF Len(cars_of_type) = 0 THEN rejected
     ELSE LET car_id == cars_of_type[1].car_id
              r == SelectRate(Rates(types, car_type), days)
              row == [car_id |-> car_id,
                      customer_number |-> StrCell(customer_number),
                      rate |-> r, days |-> days]
          IN [result |-> "True", car_id |-> car_id, rate |-> r,
              file |-> ToCsv(LocSet(rentals, row))]

\* The methods of class RentalShop a caller can name, each with its
\* parameters after self.
RentalShopMethods ==
  [display_stock |-> << >>,
   process_request |-> <<"customer_number", "car_type", "days">>,
   issue_bill |-> <<"customer_number">>]

\* What Python does with the call shop.<name>(<npos positional>, <kw>=...):
\* AttributeError if the class has no such method, TypeError if the arguments
\* do not bind to the parameters (none has a default), and otherwise the body
\* runs.
Call(name, npos, kw) ==
  IF name \notin DOMAIN RentalShopMethods THEN "AttributeError"
  ELSE LET params == RentalShopMethods[name]
           names == { params[i] : i \in 1..Len(params) }
           positional == { params[i] : i \in 1..npos }
       IN IF npos > Len(params) THEN "TypeError"
          ELSE IF \E k \in kw : k \notin names \/ k \in positional
               THEN "TypeError"
          ELSE IF npos + Cardinality(kw) < Len(params) THEN "TypeError"
          ELSE "runs"

\* ------------------------------------------------------------- the state

NoCustomer == [class |-> "", customer_number |-> NoDigits,
               card_number |-> NoDigits]

\* What the last menu command did: the handler of main.py that ran (op), the
\* customer number and the keyword arguments the customer object passed to
\* the shop, the user's entries, what the shop's method returned or raised
\* (result), the car and the daily rate of the confirmation message, the
\* totals of the bills printed and the tables display_stock printed.
NoListing == [no_cars |-> FALSE, stock |-> {}, prices |-> {}]

NoCall == [op |-> "", customer_number |-> NoDigits, keywords |-> {},
           car_type |-> "", days |-> 0, car_id |-> "",
           result |-> "", rate |-> 0, bill |-> << >>,
           listing |-> NoListing]

Init ==
  /\ db_exists = FALSE
  /\ cars = << >>
  /\ car_types = << >>
  /\ car_rentals = << >>
  /\ pc = "off"
  /\ customer = NoCustomer
  /\ last = NoCall

\* A variant that sets the files up whether or not the directory exists.
CheckDbExistsRecreate ==
  /\ db_exists' = TRUE
  /\ cars' = SetupCars
  /\ car_rentals' = SetupRentals
  /\ car_types' = SetupCarTypes

\* RentalShop.__check_db_exists: the three files are created, with the seed
\* tables, only when the shop's directory does not exist.
CheckDbExists ==
  IF db_exists
  THEN UNCHANGED <<db_exists, cars, car_types, car_rentals>>
  ELSE /\ db_exists' = TRUE
       /\ cars' = SetupCars
       /\ car_rentals' = SetupRentals
       /\ car_types' = SetupCarTypes

\* main.py:42-54, the validation of the customer number entered.
CustomerNumberAccepted(customer_number) ==
  Len(customer_number) > 0 /\ Len(customer_number) = CUSTOMER_NUMBER_LEN

\* main.py:88, the validation of a non-empty loyalty entry: it tests
\* customer_number, not the entry.
LoyaltyValidated(customer_number, loyalty_number) ==
  Len(customer_number) > 0 /\ Len(customer_number) # LOYALTY_NUMBER_LEN

\* main.py init_objects: a program run starts, the shop is constructed and the
\* user enters a customer number and a loyalty entry that the loops accept.
InitObjects(customer_number, loyalty_number) ==
  /\ pc # "menu"
  /\ CustomerNumberAccepted(customer_number)
  /\ loyalty_number = NoDigits \/ LoyaltyValidated(customer_number, loyalty_number)
  /\ CheckDbExists
  /\ customer' = IF loyalty_number = NoDigits
                 THEN [class |-> "Customer", customer_number |-> customer_number,
                       card_number |-> NoDigits]
                 ELSE [class |-> "VIPCustomer", customer_number |-> customer_number,
                       card_number |-> loyalty_number]
  /\ pc' = "menu"
  /\ last' = [NoCall EXCEPT !.op = "init_objects", !.result = "None"]

\* An exception leaves main(): nothing catches it, the program ends and its
\* objects are gone.
Raise(op, exception) ==
  /\ pc' = "crashed"
  /\ customer' = NoCustomer
  /\ last' = [op EXCEPT !.result = exception]
  /\ UNCHANGED <<db_exists, cars, car_types, car_rentals>>

\* Menu option 1: Customer.inquire calls rental_shop.display_stock_and_prices().
Inquire ==
  /\ pc = "menu"
  /\ LET outcome == Call("display_stock_and_prices", 0, {})
         op == [NoCall EXCEPT !.op = "inquire"]
     IN outcome # "runs" /\ Raise(op, outcome)

\* Customer.rent_car passes three positional arguments; VIPCustomer.rent_car
\* adds the keyword argument loyalty_number.
RentCarKeywords(c) == IF c.class = "VIPCustomer" THEN {"loyalty_number"} ELSE {}

\* Menu option 2: main.rent_car validates the day count, then the customer asks
\* the shop, which may allocate a car and rewrite car_rentals.
RentCar(car_type, days) ==
  /\ pc = "menu"
  /\ LET op == [NoCall EXCEPT !.op = "rent_car", !.car_type = car_type,
                               !.days = days,
                               !.customer_number = customer.customer_number,
                               !.keywords = RentCarKeywords(customer)]
         outcome == Call("process_request", 3, RentCarKeywords(customer))
         done == ProcessRequest(car_types, cars, car_rentals,
                                customer.customer_number, car_type, days)
     IN IF days <= 0
        THEN /\ last' = [op EXCEPT !.result = "not asked"]
             /\ UNCHANGED <<db_exists, cars, car_types, car_rentals, pc, customer>>
        ELSE IF outcome # "runs"
        THEN Raise(op, outcome)
        ELSE /\ done.result = "True" => Len(car_rentals) < MaxRentals
             /\ car_rentals' = done.file
             /\ last' = [op EXCEPT !.result = done.result,
                                   !.car_id = done.car_id, !.rate = done.rate]
             /\ UNCHANGED <<db_exists, cars, car_types, pc, customer>>

\* Menu option 3: Customer.return_car calls
\* rental_shop.issue_bill(self._customer_number, car_number); the body of
\* issue_bill is `pass`.
ReturnCar(car_number) ==
  /\ pc = "menu"
  /\ LET op == [NoCall EXCEPT !.op = "return_car", !.car_id = car_number,
                               !.customer_number = customer.customer_number]
         outcome == Call("issue_bill", 2, {})
     IN IF outcome # "runs"
        THEN Raise(op, outcome)
        ELSE /\ last' = [op EXCEPT !.result = "None"]
             /\ UNCHANGED <<db_exists, cars, car_types, car_rentals, pc, customer>>

\* Menu option 4: running = False.
Exit ==
  /\ pc = "menu"
  /\ pc' = "exited"
  /\ customer' = NoCustomer
  /\ last' = [NoCall EXCEPT !.op = "exit", !.result = "None"]
  /\ UNCHANGED <<db_exists, cars, car_types, car_rentals>>

\* Any other menu input: a message, and the loop asks again.
UnknownOption ==
  /\ pc = "menu"
  /\ last' = [NoCall EXCEPT !.op = "unknown option", !.result = "None"]
  /\ UNCHANGED <<db_exists, cars, car_types, car_rentals, pc, customer>>

Next ==
  \/ \E cn \in CustomerEntries, ln \in LoyaltyEntries : InitObjects(cn, ln)
  \/ Inquire
  \/ \E t \in CarTypeEntries, d \in DayEntries : RentCar(t, d)
  \/ \E n \in CarNumberEntries : ReturnCar(n)
  \/ Exit
  \/ UnknownOption

Spec == Init /\ [][Next]_vars

\* ------------------------------------------------- the end-to-end session

\* The entries of the session that rents one suv for five days and returns
\* it: no loyalty card, the type suv, five days, the first suv of the fleet.
SessionLoyaltyEntries == { NoDigits }
SessionCarTypeEntries == { "suv" }
SessionDayEntries == { 5, WEEK }
SessionCarNumberEntries == { "MC469ZMW" }

SessionNext ==
  \/ \E cn \in CustomerEntries, ln \in SessionLoyaltyEntries : InitObjects(cn, ln)
  \/ Inquire
  \/ \E t \in SessionCarTypeEntries, d \in SessionDayEntries : RentCar(t, d)
  \/ \E n \in SessionCarNumberEntries : ReturnCar(n)
  \/ Exit
  \/ UnknownOption

SessionSpec == Init /\ [][SessionNext]_vars

\* ------------------------------------- RentalShop called method by method

\* A caller that holds a RentalShop object and calls the methods the class
\* defines, each with the parameters it declares, in any order: the day
\* counts are the positive ones main.py lets through.
ShopDayEntries == { d \in DayEntries : d > 0 }

\* A variant of the call of process_request that stores the cars still on
\* offer over the cars file.
ShopProcessRequestStoresCars(customer_number, car_type, days) ==
  /\ db_exists
  /\ LET done == ProcessRequest(car_types, cars, car_rentals,
                                customer_number, car_type, days)
     IN /\ done.result = "True" => Len(car_rentals) < MaxRentals
        /\ car_rentals' = done.file
        /\ cars' = GetAvailableCars(cars, GetData(done.file))
        /\ last' = [NoCall EXCEPT !.op = "process_request",
                                  !.customer_number = customer_number,
                                  !.car_type = car_type, !.days = days,
                                  !.result = done.result,
                                  !.car_id = done.car_id, !.rate = done.rate]
        /\ UNCHANGED <<db_exists, car_types, pc, customer>>

\* RentalShop(shop_id): __init__ runs __check_db_exists.
ShopConstruct ==
  /\ CheckDbExists
  /\ last' = [NoCall EXCEPT !.op = "RentalShop", !.result = "None"]
  /\ UNCHANGED <<pc, customer>>

\* shop.display_stock()
ShopDisplayStock ==
  /\ db_exists
  /\ LET shown == DisplayStock(car_types, cars, car_rentals)
     IN /\ car_rentals' = shown.file
        /\ last' = [NoCall EXCEPT !.op = "display_stock", !.result = "None",
                                  !.listing = [no_cars |-> shown.no_cars,
                                               stock |-> shown.stock,
                                               prices |-> shown.prices]]
  /\ UNCHANGED <<db_exists, cars, car_types, pc, customer>>

\* shop.process_request(customer_number, car_type, days)
ShopProcessRequest(customer_number, car_type, days) ==
  /\ db_exists
  /\ LET done == ProcessRequest(car_types, cars, car_rentals,
                                customer_number, car_type, days)
     IN /\ done.result = "True" => Len(car_rentals) < MaxRentals
        /\ car_rentals' = done.file
        /\ last' = [NoCall EXCEPT !.op = "process_request",
                                  !.customer_number = customer_number,
                                  !.car_type = car_type, !.days = days,
                                  !.result = done.result,
                                  !.car_id = done.car_id, !.rate = done.rate]
        /\ UNCHANGED <<db_exists, cars, car_types, pc, customer>>

\* shop.issue_bill(customer_number): the body is `pass`.
ShopIssueBill(customer_number) ==
  /\ db_exists
  /\ last' = [NoCall EXCEPT !.op = "issue_bill", !.result = "None",
                            !.customer_number = customer_number]
  /\ UNCHANGED <<db_exists, cars, car_types, car_rentals, pc, customer>>

ShopNext ==
  \/ ShopConstruct
  \/ ShopDisplayStock
  \/ \E cn \in CustomerEntries, t \in CarTypeEntries, d \in ShopDayEntries :
       ShopProcessRequest(cn, t, d)
  \/ \E cn \in CustomerEntries : ShopIssueBill(cn)

ShopSpec == Init /\ [][ShopNext]_vars

\* ------------------------------------------------------------ properties

\* The car ids of the fleet that are of car type t.
CarsOfType(fleet, t) ==
  { fleet[i].car_id : i \in { j \in 1..Len(fleet) : fleet[j].car_type = t } }

\* The car ids the shop offers: the index of available_cars().
AvailableIds(fleet, rentals) == Index(GetAvailableCars(fleet, rentals))

\* The rows of the rentals table for car x.
RecordsOf(rentals, x) == { rentals[i] : i \in RowsOf(rentals, x) }

\* Car x has a rental record whose customer_number is the text a.
RentedBy(rentals, x, a) ==
  \E rec \in RecordsOf(rentals, x) : rec.customer_number = a

\* The last command was a rent request that entered process_request: main
\* accepted the day count and the customer's call passed the parameters the
\* method declares.
ProcessRequestRan(l) ==
  /\ l.op = "rent_car" /\ l.days > 0
  /\ Call("process_request", 3, l.keywords) = "runs"

\* C1. No double-booking: in every reachable state no car_id is both in the
\* rentals table and in available_cars(), and no car_id has two rental records.
C1_NoDoubleBooking ==
  /\ AvailableIds(cars, car_rentals) \cap Index(car_rentals) = {}
  /\ \A i, j \in 1..Len(car_rentals) :
       car_rentals[i].car_id = car_rentals[j].car_id => i = j

\* C1 witness: cars of both types are rented, by two customers, and a return
\* (issue_bill) has been asked for as well.
C1_Witness ==
  /\ last.op = "return_car"
  /\ \E i, j \in 1..Len(car_rentals) :
       /\ car_rentals[i].car_id \in CarsOfType(cars, "sedan")
       /\ car_rentals[j].car_id \in CarsOfType(cars, "suv")
       /\ car_rentals[i].customer_number # car_rentals[j].customer_number

\* C2. Allocation correctness: a process_request for a car type t of the rate
\* schedule with at least one available car returns True, and exactly one car
\* that was available and of type t before the call is afterwards in the
\* rentals table and not in available_cars(); no other car's availability
\* changes.
C2_AllocationCorrect ==
  [][ LET t == last'.car_type
          before == AvailableIds(cars, car_rentals)
          after == AvailableIds(cars', car_rentals')
      IN ( /\ ProcessRequestRan(last')
           /\ t \in TypeNames(car_types)
           /\ before \cap CarsOfType(cars, t) # {} )
         => /\ last'.result = "True"
            /\ \E x \in before \cap CarsOfType(cars, t) :
                 /\ last'.car_id = x
                 /\ x \notin Index(car_rentals)
                 /\ Index(car_rentals') = Index(car_rentals) \cup {x}
                 /\ after = before \ {x} ]_vars

\* C2 witness: a request succeeded while other cars were already rented and
\* the allocated car is not the first car of its type in the fleet.
C2_Witness ==
  /\ ProcessRequestRan(last) /\ last.result = "True"
  /\ Len(car_rentals) >= 2
  /\ last.car_id = "GU507KVR"
  /\ last.car_id \in Index(car_rentals)
  /\ last.car_id \notin AvailableIds(cars, car_rentals)

\* C3. Rate precedence, loyalty branch: a rent request that carries a loyalty
\* id, for a known type that is in stock, succeeds and the daily rate stored in
\* the new rental record is that type's vip rate, whatever the day count.
C3_LoyaltyGetsVipRate ==
  [][ LET t == last'.car_type
      IN ( /\ last'.op = "rent_car" /\ last'.days > 0
           /\ "loyalty_number" \in last'.keywords
           /\ t \in TypeNames(car_types)
           /\ AvailableIds(cars, car_rentals) \cap CarsOfType(cars, t) # {} )
         => /\ last'.result = "True"
            /\ \E rec \in RecordsOf(car_rentals', last'.car_id) :
                 rec.rate = Rates(car_types, t).vip_rate ]_vars

\* C4. Rate precedence, duration branch: after a successful rent request
\* without loyalty id for type t, the daily rate stored in the new record (and
\* charged in the confirmation) is t's short-term rate if days < 7 and t's
\* long-term rate if days >= 7.
C4_DurationRate ==
  ( /\ ProcessRequestRan(last) /\ last.result = "True"
    /\ last.keywords = {} )
  => LET rates == Rates(car_types, last.car_type)
         expected == IF last.days < 7 THEN rates.short_term_rate
                     ELSE rates.long_term_rate
     IN /\ last.rate = expected
        /\ RecordsOf(car_rentals, last.car_id) # {}
        /\ \A rec \in RecordsOf(car_rentals, last.car_id) :
             rec.rate = expected /\ rec.days = last.days

\* C4 witness: a seven-day rental stored at the long-term rate, after a six-day
\* rental of the same type stored at the short-term rate.
C4_Witness ==
  /\ ProcessRequestRan(last) /\ last.result = "True" /\ last.keywords = {}
  /\ last.days = 7 /\ last.car_type = "suv" /\ last.rate = 90
  /\ \E i \in 1..Len(car_rentals) :
       /\ car_rentals[i].car_id \in CarsOfType(cars, "suv")
       /\ car_rentals[i].days = 6 /\ car_rentals[i].rate = 100

\* C5. Ownership check on return: issue_bill(a, x) returns False both when x
\* is rented by another customer and when x is not rented at all, and leaves
\* the rentals table unchanged.
C5_ReturnRejected ==
  [][ ( /\ last'.op = "return_car"
        /\ ~RentedBy(car_rentals, last'.car_id, last'.customer_number) )
      => /\ last'.result = "False"
         /\ car_rentals' = car_rentals ]_vars

\* C6. Successful return: when car x has a rental record whose customer is a,
\* issue_bill(a, x) returns True, x's record is gone from the rentals table on
\* disk and x is in available_cars() again.
C6_ReturnSucceeds ==
  [][ ( /\ last'.op = "return_car"
        /\ RentedBy(car_rentals, last'.car_id, last'.customer_number) )
      => /\ last'.result = "True"
         /\ last'.car_id \notin Index(car_rentals')
         /\ last'.car_id \in AvailableIds(cars', car_rentals') ]_vars

\* C7. Billing snapshot: a return of car x by the customer who rented it
\* prints a bill whose total is days times the daily rate stored in x's
\* rental record at rental time.
C7_BillUsesStoredRate ==
  [][ ( /\ last'.op = "return_car"
        /\ RentedBy(car_rentals, last'.car_id, last'.customer_number) )
      => \E rec \in RecordsOf(car_rentals, last'.car_id) :
           last'.bill = << rec.days * rec.rate >> ]_vars

\* C8. Unknown car type: a process_request for a car type that is not in the
\* rate schedule returns False and leaves the three tables as they were,
\* whatever the customer, the day count and the rentals.
C8_UnknownTypeRejected ==
  [][ ( /\ ProcessRequestRan(last')
        /\ last'.car_type \notin TypeNames(car_types) )
      => /\ last'.result = "False"
         /\ car_rentals' = car_rentals
         /\ cars' = cars /\ car_types' = car_types
         /\ db_exists' = db_exists ]_vars

\* C8 witness: an unknown type was refused while a rental by the customer
\* whose number starts with 0 was the newest record of the table.
C8_Witness ==
  /\ ProcessRequestRan(last) /\ last.result = "False"
  /\ last.car_type \notin TypeNames(car_types)
  /\ Len(car_rentals) >= 1
  /\ car_rentals[Len(car_rentals)].customer_number = <<0, 1, 2, 3, 4, 5>>

\* C9. Out of stock: a process_request for a known car type t returns False
\* and leaves the rentals table unchanged whenever every fleet car of type t
\* has a rental record, also when cars of other types are available.
C9_OutOfStockRejected ==
  [][ ( /\ ProcessRequestRan(last')
        /\ last'.car_type \in TypeNames(car_types)
        /\ CarsOfType(cars, last'.car_type) \subseteq Index(car_rentals) )
      => /\ last'.result = "False"
         /\ car_rentals' = car_rentals ]_vars

\* C9 witness: a sedan was refused with the three sedans rented and cars of
\* other types still on offer.
C9_Witness ==
  /\ ProcessRequestRan(last) /\ last.result = "False"
  /\ last.car_type = "sedan"
  /\ CarsOfType(cars, "sedan") \subseteq Index(car_rentals)
  /\ Cardinality(CarsOfType(cars, "sedan")) = 3
  /\ AvailableIds(cars, car_rentals) # {}

\* C10. Every domain rejection is non-crashing: after a request for an unknown
\* car type, a request for a type that is out of stock, or a return of a car
\* that the customer does not rent, the operation has returned False and the
\* main menu loop accepts the next command.
C10_RejectionKeepsMenu ==
  [][ LET t == last'.car_type
          refused_rent ==
            /\ last'.op = "rent_car" /\ last'.days > 0
            /\ \/ t \notin TypeNames(car_types)
               \/ AvailableIds(cars, car_rentals) \cap CarsOfType(cars, t) = {}
          refused_return ==
            /\ last'.op = "return_car"
            /\ ~RentedBy(car_rentals, last'.car_id, last'.customer_number)
      IN (refused_rent \/ refused_return)
         => (last'.result = "False" /\ pc' = "menu") ]_vars

\* The number of cars of type t on offer.
StockOf(fleet, rentals, t) ==
  Cardinality(AvailableIds(fleet, rentals) \cap CarsOfType(fleet, t))

\* C11. End-to-end scenario on the freshly seeded shop (3 suv cars): renting
\* one suv for 5 days without loyalty id succeeds with the stored daily rate
\* 100 and leaves 2 suv cars on offer; the return of that car by the same
\* customer right afterwards succeeds with a bill total of 5 x 100 = 500 and
\* 3 suv cars on offer again.
C11_EndToEnd ==
  [][ /\ ( /\ car_rentals = << >> /\ db_exists
           /\ StockOf(cars, car_rentals, "suv") = 3
           /\ last'.op = "rent_car" /\ last'.car_type = "suv"
           /\ last'.days = 5 /\ last'.keywords = {} )
         => /\ last'.result = "True" /\ last'.rate = 100
            /\ \E rec \in RecordsOf(car_rentals', last'.car_id) : rec.rate = 100
            /\ StockOf(cars', car_rentals', "suv") = 2
      /\ ( /\ Len(car_rentals) = 1
           /\ last.op = "rent_car" /\ last.result = "True"
           /\ last.car_type = "suv" /\ last.days = 5
           /\ last'.op = "return_car" /\ last'.car_id = last.car_id
           /\ last'.customer_number = last.customer_number )
         => /\ last'.result = "True"
            /\ last'.bill = << 500 >>
            /\ StockOf(cars', car_rentals', "suv") = 3 ]_vars

\* C12. Stock listing completeness: the stock table display_stock prints has
\* a row for every type name of the rate schedule, with the number of cars of
\* the type on offer; a type whose cars are all rented has a row with count 0.
C12_ListingComplete ==
  last.op = "display_stock"
  => \A t \in TypeNames(car_types) :
       \E row \in last.listing.stock :
         /\ row.car_type = Rename(car_types, t)
         /\ row.size = StockOf(cars, car_rentals, t)

\* C13. Idempotent stock listing: a display_stock call leaves the cars, the
\* car_types and the car_rentals tables as they were, and a call right after
\* another display_stock call reports the same rows.
C13_DisplayReadOnly ==
  [][ last'.op = "display_stock"
      => /\ cars' = cars /\ car_types' = car_types
         /\ car_rentals' = car_rentals /\ db_exists' = db_exists
         /\ last'.listing.stock =
              { [car_type |-> Rename(car_types, t),
                 size |-> StockOf(cars, car_rentals, t)] :
                t \in { u \in TypeNames(car_types) :
                          StockOf(cars, car_rentals, u) > 0 } }
         /\ last.op = "display_stock" => last'.listing = last.listing ]_vars

\* C13 witness: the stock was displayed while the rentals file held a record
\* whose customer number is still written with its leading zero, and two SUVs
\* were on offer.
C13_Witness ==
  /\ last.op = "display_stock"
  /\ Len(car_rentals) >= 1
  /\ car_rentals[Len(car_rentals)].customer_number = <<0, 1, 2, 3, 4, 5>>
  /\ [car_type |-> "SUV", size |-> 2] \in last.listing.stock

\* C14. Initialisation is idempotent: constructing the shop when its storage
\* exists changes none of the three tables, so earlier rentals survive; the
\* first construction creates the seed fleet (10 cars: 4 hatchback, 3 sedan,
\* 3 suv), the seed rate schedule and an empty rentals table.
C14_InitIdempotent ==
  [][ last'.op = "init_objects"
      => IF db_exists
         THEN /\ cars' = cars /\ car_types' = car_types
              /\ car_rentals' = car_rentals /\ db_exists'
         ELSE /\ db_exists'
              /\ Len(cars') = 10
              /\ Cardinality(CarsOfType(cars', "hatchback")) = 4
              /\ Cardinality(CarsOfType(cars', "sedan")) = 3
              /\ Cardinality(CarsOfType(cars', "suv")) = 3
              /\ car_rentals' = << >>
              /\ TypeNames(car_types') = {"hatchback", "sedan", "suv"}
              /\ Len(car_types') = 3
              /\ Rates(car_types', "hatchback").short_term_rate = 30
              /\ Rates(car_types', "hatchback").long_term_rate = 25
              /\ Rates(car_types', "hatchback").vip_rate = 20
              /\ Rates(car_types', "sedan").short_term_rate = 50
              /\ Rates(car_types', "sedan").long_term_rate = 40
              /\ Rates(car_types', "sedan").vip_rate = 35
              /\ Rates(car_types', "suv").short_term_rate = 100
              /\ Rates(car_types', "suv").long_term_rate = 90
              /\ Rates(car_types', "suv").vip_rate = 80 ]_vars

\* C14 witness: the program was started again on a shop that holds rentals
\* of two customers.
C14_Witness ==
  /\ last.op = "init_objects" /\ pc = "menu"
  /\ Len(car_rentals) >= 2
  /\ \E i, j \in 1..Len(car_rentals) :
       car_rentals[i].customer_number # car_rentals[j].customer_number

\* C15. Fleet and rate schedule are read-only at runtime: once the shop
\* exists, no display_stock, process_request (successful or rejected) or
\* issue_bill call changes the cars table or the car_types table.
C15_FleetAndRatesReadOnly ==
  [][ db_exists => (cars' = cars /\ car_types' = car_types) ]_vars

\* C15 witness: a request has just been stored as the second record at least,
\* and the cars and car_types tables are the seed tables still.
C15_Witness ==
  /\ last.op = "process_request" /\ last.result = "True"
  /\ Len(car_rentals) >= 2
  /\ last.car_id \in Index(car_rentals)
  /\ cars = SetupCars /\ car_types = SetupCarTypes

\* C16. Referential integrity of rentals: every car_id of the rentals table is
\* a car_id of the cars table, and the customer number of a record is the
\* number of the customer whose request created it: the request stores the
\* requester's number and no later step alters it while the record exists.
C16_ReferentialIntegrity ==
  [][ /\ Index(car_rentals') \subseteq Index(cars')
      /\ (ProcessRequestRan(last') /\ last'.result = "True")
         => RentedBy(car_rentals', last'.car_id, last'.customer_number)
      /\ \A i \in 1..Len(car_rentals) : \A j \in 1..Len(car_rentals') :
           ( /\ car_rentals[i].car_id = car_rentals'[j].car_id
             /\ ~(ProcessRequestRan(last') /\ last'.car_id = car_rentals[i].car_id) )
           => car_rentals'[j].customer_number = car_rentals[i].customer_number ]_vars

\* C17. Loyalty id validation: a VIPCustomer exists only with a loyalty number
\* of exactly 10 digits; an empty entry gives a regular Customer.
C17_LoyaltyTenDigits ==
  /\ customer.class = "VIPCustomer"
     => Len(customer.card_number) = LOYALTY_NUMBER_LEN
  /\ customer.class = "Customer" => customer.card_number = NoDigits

\* C18. Customer id round-trip: the customer number a request wrote into its
\* rental record is read back from the rentals table as the same string,
\* leading zeros included.
C18_CustomerIdRoundTrip ==
  (ProcessRequestRan(last) /\ last.result = "True")
  => LET read_back == GetData(car_rentals)
     IN /\ RowsOf(read_back, last.car_id) # {}
        /\ \A i \in RowsOf(read_back, last.car_id) :
             read_back[i].customer_number = StrCell(last.customer_number)

\* The first row of the fleet, in row order, that is of type t and has no
\* rental record.
FirstFit(fleet, rentals, t) ==
  LET free == { i \in 1..Len(fleet) :
                  fleet[i].car_type = t /\ fleet[i].car_id \notin Index(rentals) }
  IN fleet[CHOOSE i \in free : \A j \in free : i <= j].car_id

\* C19. Deterministic first-fit allocation: a successful process_request for
\* type t allocates the available car of type t that comes first in the row
\* order of the cars table, so the car is a function of the tables and the
\* requested type.
C19_FirstFit ==
  [][ (ProcessRequestRan(last') /\ last'.result = "True")
      => /\ last'.car_id = FirstFit(cars, car_rentals, last'.car_type)
         /\ RecordsOf(car_rentals', last'.car_id) # {} ]_vars

\* C19 witness: the third sedan was allocated, which stands behind three
\* hatchbacks in the cars table, with the two sedans before it rented.
C19_Witness ==
  /\ ProcessRequestRan(last) /\ last.result = "True"
  /\ last.car_type = "sedan" /\ last.car_id = "PL535HEE"
  /\ {"MP952TQG", "XZ893SXR"} \subseteq Index(car_rentals)
  /\ "CO758OZP" \in AvailableIds(cars, car_rentals)

\* C20. Rent then return is a round trip: a successful rent request followed
\* at once by the return of the allocated car by the same customer leaves the
\* rentals table as it was before the rent: the record the rent appended is
\* gone and the records before it are the rows that remain.
C20_RentReturnRoundTrip ==
  [][ ( /\ ProcessRequestRan(last) /\ last.result = "True"
        /\ last'.op = "return_car" /\ last'.car_id = last.car_id
        /\ last'.customer_number = last.customer_number )
      => /\ last'.car_id \notin Index(car_rentals')
         /\ car_rentals' = SubSeq(car_rentals, 1, Len(car_rentals) - 1) ]_vars

\* C21. Mutations touch exactly one record: a successful process_request adds
\* one rental record and leaves every record that was there before (car_id,
\* customer_number, rate, days) as it was, and a successful issue_bill(a, x)
\* removes x's record only, every other record staying as it was, other cars
\* rented by a included.
C21_OneRecordTouched ==
  [][ /\ (ProcessRequestRan(last') /\ last'.result = "True")
         => /\ Len(car_rentals') = Len(car_rentals) + 1
            /\ \A i \in 1..Len(car_rentals) : car_rentals'[i] = car_rentals[i]
            /\ car_rentals'[Len(car_rentals')].car_id = last'.car_id
      /\ (last'.op = "return_car" /\ last'.result = "True")
         => /\ last'.car_id \in Index(car_rentals)
            /\ last'.car_id \notin Index(car_rentals')
            /\ { car_rentals'[i] : i \in 1..Len(car_rentals') }
                 = { car_rentals[i] : i \in 1..Len(car_rentals) }
                     \ RecordsOf(car_rentals, last'.car_id) ]_vars

====
